---- MODULE Spec2Model ----
(***************************************************************************)
(* A model of the Aadhaar chat agent: the conversation memory and answer   *)
(* composer of OpenAIChat (src/openai_chat.py), the document index of      *)
(* VectorDatabase (src/vector_db.py), the corpus reader of PDFProcessor    *)
(* (src/pdf_processor.py) and the sessions of AadhaarChatAgent             *)
(* (src/aadhaar_agent.py).                                                 *)
(*                                                                         *)
(* Texts are modelled by their structure.  A user query is <<"Q", n>>, the *)
(* n-th question the user types; the completion's answer to it is          *)
(* <<"A", n>>.  A string the code tests for emptiness is a sequence, empty *)
(* for "".  A document text is the sequence of the lengths of its words.   *)
(***************************************************************************)
EXTENDS Integers, Sequences, FiniteSets, TLC

(***************************************************************************)
(* Bounds of the model.                                                    *)
(***************************************************************************)
\* questions the user types to one OpenAIChat object driven directly
MaxQueries == 22
\* questions the user types over the sessions of one agent
MaxAgentQueries == 2
\* process starts against the same persisted index
MaxSessions == 3
\* words of a text given to a chunker
MaxChunkWords == 5
\* chunk_size given to a chunker
MaxChunkSize == 3
\* overlap given to a chunker
MaxOverlap == 4

(***************************************************************************)
(* Constants of the program.                                               *)
(***************************************************************************)
\* conversation_history[-20:] in generate_response
WindowSize == 20
\* len(conversation_history) % 20 in _update_conversation_summary
SummaryPeriod == 20
\* conversation_history[-20:] in _update_conversation_summary
SummarySpan == 20
\* "Last 20 exchanges (40 messages)" in the module documentation
DocumentedWindow == 40
\* n_results=3 in chat_loop and ask_question
NResults == 3
\* chunk_text defaults of VectorDatabase
ChunkSize == 800
ChunkOverlap == 150
\* len(chunk.strip()) > 50
MinChunkChars == 50

VARIABLES
    conversation_history,   \* OpenAIChat.conversation_history
    conversation_summary,   \* OpenAIChat.conversation_summary
    last_call,              \* what the last call on the OpenAIChat object sent and returned
    nextq,                  \* number of the next question the user types
    reset_mark,             \* history variable: the value of nextq at the last clear_history
    embedding_model,        \* VectorDatabase.embedding_model of this session
    load_attempts,          \* the candidates __init__ tried to load, in order
    collection,             \* the persisted ChromaDB collection
    is_initialized,         \* AadhaarChatAgent.is_initialized
    pdf_directory,          \* the files of the corpus directory
    session,                \* number of the running process
    in_chat_loop,           \* the process is inside chat_loop's while loop
    agent_call,             \* what the last call on the agent did and yielded
    chunk_call              \* what the last call on a chunker was given and returned

chat_vars == <<conversation_history, conversation_summary, last_call, nextq, reset_mark>>
agent_vars == <<embedding_model, load_attempts, collection, is_initialized,
                pdf_directory, session, in_chat_loop, agent_call>>
vars == <<conversation_history, conversation_summary, last_call, nextq, reset_mark,
          embedding_model, load_attempts, collection, is_initialized,
          pdf_directory, session, in_chat_loop, agent_call, chunk_call>>

(***************************************************************************)
(* Python helpers.                                                         *)
(***************************************************************************)
Min(a, b) == IF a < b THEN a ELSE b

\* seq[-n:] for n > 0
PySuffix(seq, n) ==
    SubSeq(seq, IF Len(seq) > n THEN Len(seq) - n + 1 ELSE 1, Len(seq))

\* a mutant of HistoryWindow: the slice taken from the front
HistoryWindowOldest(history) == SubSeq(history, 1, Min(Len(history), WindowSize))

\* self.conversation_history[-20:] of generate_response
HistoryWindow(history) == PySuffix(history, WindowSize)

(***************************************************************************)
(* OpenAIChat                                                              *)
(***************************************************************************)
SystemMessage == [role |-> "system", content |-> <<"SYSTEM">>]

SummaryMessage(summary) ==
    [role |-> "system", content |-> <<"CONVERSATION SUMMARY", summary>>]

UserMessage(context, user_query) ==
    [role |-> "user",
     content |-> <<"RELEVANT DOCUMENT CONTEXT", context, "CURRENT QUESTION", user_query>>]

\* _prepare_context: one part per document, numbered from 1, with its source
prepare_context(documents) ==
    [i \in 1..Len(documents) |->
        <<"Source", i,
          IF "filename" \in DOMAIN documents[i].metadata
              THEN documents[i].metadata.filename ELSE "Unknown",
          documents[i].content>>]

\* a mutant of SummaryPart: the summary message is always added
SummaryPartAlways(summary) == <<SummaryMessage(summary)>>

\* if self.conversation_summary: messages.append(...)
SummaryPart(summary) == IF summary # <<>> THEN <<SummaryMessage(summary)>> ELSE <<>>

\* the message list generate_response sends to the completion
BuildMessages(summary, history, context, user_query) ==
    <<SystemMessage>> \o SummaryPart(summary) \o HistoryWindow(history)
        \o <<UserMessage(context, user_query)>>

\* response.choices[0].message.content: the answer to the question asked last
CompletionText(messages) == <<"A", messages[Len(messages)].content[4][2]>>

\* a mutant of RecentExchanges: the whole history is summarized
RecentExchangesAll(history) == history

\* recent_exchanges = self.conversation_history[-20:]
RecentExchanges(history) == PySuffix(history, SummarySpan)

\* conversation_text: one "role: content" line per message
ConversationText(recent_exchanges) ==
    [i \in 1..Len(recent_exchanges) |->
        <<recent_exchanges[i].role, recent_exchanges[i].content>>]

\* the request of the summarization call
SummaryPrompt(history) ==
    <<[role |-> "user",
       content |-> <<"Summarize", ConversationText(RecentExchanges(history))>>]>>

\* summary_response.choices[0].message.content: a digest of the prompt's conversation
SummaryText(prompt) == <<<<"SUMMARY", prompt[1].content[2]>>>>

\* a mutant of SummaryTrigger: the period is counted in exchanges, not messages
SummaryTriggerExchanges(history) ==
    (Len(history) \div 2) % SummaryPeriod = 0 /\ Len(history) > 0

\* len(self.conversation_history) % 20 == 0 and len(self.conversation_history) > 0
SummaryTrigger(history) ==
    Len(history) % SummaryPeriod = 0 /\ Len(history) > 0

\* a mutant of StoredSummary: the new text is appended to the old summary
StoredSummaryAppended(old, text) == old \o text

\* self.conversation_summary = summary_response.choices[0].message.content
StoredSummary(old, text) == text

\* a mutant of SummaryAfterFailure: a failed summarization clears the summary
SummaryAfterFailureCleared(old) == <<>>

\* except Exception: the summary is left as it was
SummaryAfterFailure(old) == old

\* _update_conversation_summary: the requests it sends and the summary it leaves
update_conversation_summary(history, summary, summary_ok) ==
    IF SummaryTrigger(history)
    THEN [requests |-> <<SummaryPrompt(history)>>,
          failed |-> ~summary_ok,
          summary |-> IF summary_ok
                          THEN StoredSummary(summary, SummaryText(SummaryPrompt(history)))
                          ELSE SummaryAfterFailure(summary)]
    ELSE [requests |-> <<>>, failed |-> FALSE, summary |-> summary]

NoCall ==
    [op |-> "none", messages |-> <<>>, summary_requests |-> <<>>,
     summary_failed |-> FALSE, returned |-> <<"none">>]

\* a mutant of RecordedOnFailure: the user turn is recorded before the completion call
RecordedOnFailureUserTurn(history, user_query) ==
    Append(history, [role |-> "user", content |-> user_query])

\* the history after a failed completion call
RecordedOnFailure(history, user_query) == history

\* a mutant of Recorded: only the assistant's answer is appended
RecordedAnswerOnly(history, user_query, assistant_response) ==
    Append(history, [role |-> "assistant", content |-> assistant_response])

\* the two appends after a successful completion call
Recorded(history, user_query, assistant_response) ==
    Append(Append(history, [role |-> "user", content |-> user_query]),
           [role |-> "assistant", content |-> assistant_response])

\* a mutant of ReturnedAfterSummary: a failed summarization replaces the answer
ReturnedAfterSummaryError(assistant_response, summary_failed) ==
    IF summary_failed THEN <<"error", <<"Error generating response">>>>
    ELSE <<"answer", assistant_response>>

\* return assistant_response, reached whatever the summarization did
ReturnedAfterSummary(assistant_response, summary_failed) ==
    <<"answer", assistant_response>>

\* generate_response(user_query, context_documents)
generate_response(user_query, context_documents, completion_ok, summary_ok) ==
    LET context == prepare_context(context_documents)
        messages == BuildMessages(conversation_summary, conversation_history,
                                  context, user_query)
    IN  IF completion_ok
        THEN LET assistant_response == CompletionText(messages)
                 history == Recorded(conversation_history, user_query, assistant_response)
                 upd == update_conversation_summary(history, conversation_summary,
                                                    summary_ok)
             IN  /\ conversation_history' = history
                 /\ conversation_summary' = upd.summary
                 /\ last_call' = [op |-> "generate_response",
                                  messages |-> messages,
                                  summary_requests |-> upd.requests,
                                  summary_failed |-> upd.failed,
                                  returned |-> ReturnedAfterSummary(assistant_response,
                                                                    upd.failed)]
        ELSE /\ conversation_history' = RecordedOnFailure(conversation_history, user_query)
             /\ conversation_summary' = conversation_summary
             /\ last_call' = [op |-> "generate_response",
                              messages |-> messages,
                              summary_requests |-> <<>>,
                              summary_failed |-> FALSE,
                              returned |-> <<"error", <<"Error generating response">>>>]

\* a mutant of ClearedSummary: clear_history forgets to clear the summary
ClearedSummaryKept(summary) == summary

\* self.conversation_summary = ""
ClearedSummary(summary) == <<>>

\* clear_history()
clear_history ==
    /\ conversation_history' = <<>>
    /\ conversation_summary' = ClearedSummary(conversation_summary)
    /\ last_call' = [NoCall EXCEPT !.op = "clear_history"]
    /\ reset_mark' = nextq

(***************************************************************************)
(* PDFProcessor                                                            *)
(***************************************************************************)
\* extract_text_from_pdf: the text of the pages, or "" when the file cannot be read
extract_text_from_pdf(file) == IF file.readable THEN file.text ELSE <<>>

RECURSIVE process_all_pdfs(_)
\* process_all_pdfs: one document per file whose extracted text has a word in it
process_all_pdfs(files) ==
    IF files = <<>> THEN <<>>
    ELSE LET text == extract_text_from_pdf(Head(files))
             rest == process_all_pdfs(Tail(files))
         IN  IF text # <<>>
             THEN <<[filename |-> Head(files).name,
                     content |-> text,
                     source |-> <<"Supporting Documents", Head(files).name>>]>> \o rest
             ELSE rest

(***************************************************************************)
(* VectorDatabase                                                          *)
(***************************************************************************)
\* the candidates of __init__, in the order they are tried
bge_models ==
    <<"BAAI/bge-large-en-v1.5", "BAAI/bge-base-en-v1.5",
      "BAAI/bge-small-en-v1.5", "sentence-transformers/all-mpnet-base-v2">>

\* a mutant of FirstLoaded: the loop has no break, the last candidate that loads wins
FirstLoadedNoBreak(loadable) ==
    IF \E i \in 1..Len(bge_models) : bge_models[i] \in loadable
    THEN CHOOSE i \in 1..Len(bge_models) :
             /\ bge_models[i] \in loadable
             /\ \A j \in (i + 1)..Len(bge_models) : bge_models[j] \notin loadable
    ELSE 0

\* the position of the first candidate that loads, 0 when none does
FirstLoaded(loadable) ==
    IF \E i \in 1..Len(bge_models) : bge_models[i] \in loadable
    THEN CHOOSE i \in 1..Len(bge_models) :
             /\ bge_models[i] \in loadable
             /\ \A j \in 1..(i - 1) : bge_models[j] \notin loadable
    ELSE 0

\* self.embedding_model after __init__
LoadedModel(loadable) ==
    IF FirstLoaded(loadable) = 0 THEN "None" ELSE bge_models[FirstLoaded(loadable)]

\* the candidates __init__ passed to SentenceTransformer, in order, each with
\* whether it loaded: the loop goes on after a failure and breaks after a success
LoadAttempts(loadable) ==
    LET tried == IF FirstLoaded(loadable) = 0 THEN Len(bge_models)
                 ELSE FirstLoaded(loadable)
    IN  [k \in 1..tried |-> <<bge_models[k], bge_models[k] \in loadable>>]

\* the embedding space a text is put in: the session's model, or the index's
\* default embedding when no model is loaded
EmbeddingSpace(model) == IF model # "None" THEN model ELSE "default"

RECURSIVE SumSeq(_)
\* the sum of the numbers of a sequence, by halves
SumSeq(seq) ==
    IF seq = <<>> THEN 0
    ELSE IF Len(seq) = 1 THEN seq[1]
    ELSE SumSeq(SubSeq(seq, 1, Len(seq) \div 2))
             + SumSeq(SubSeq(seq, Len(seq) \div 2 + 1, Len(seq)))

\* len(" ".join(words)): the words and one space between neighbours
JoinedLength(words) == IF words = <<>> THEN 0 ELSE SumSeq(words) + Len(words) - 1

\* range(0, n, step) for step # 0
PyRange(n, step) ==
    IF step > 0 THEN [k \in 1..((n + step - 1) \div step) |-> (k - 1) * step]
    ELSE <<>>

\* range() raises ValueError when the step is zero
chunk_text_raises(chunk_size, overlap) == chunk_size - overlap = 0

\* words[i:i + chunk_size] for chunk_size >= 0
WordWindow(words, i, chunk_size) ==
    SubSeq(words, i + 1, Min(i + chunk_size, Len(words)))

RECURSIVE KeepChunks(_, _, _)
\* the loop body of chunk_text: a window is kept when it has more than 50 characters
KeepChunks(words, starts, chunk_size) ==
    IF starts = <<>> THEN <<>>
    ELSE LET chunk == WordWindow(words, Head(starts), chunk_size)
             rest == KeepChunks(words, Tail(starts), chunk_size)
         IN  IF chunk # <<>> /\ JoinedLength(chunk) > MinChunkChars
             THEN <<chunk>> \o rest ELSE rest

\* chunk_text(text, chunk_size, overlap), when range() does not raise
chunk_text(text, chunk_size, overlap) ==
    KeepChunks(text, PyRange(Len(text), chunk_size - overlap), chunk_size)

\* the entries add_documents builds for one document
DocumentEntries(doc, model) ==
    LET chunks == chunk_text(doc.content, ChunkSize, ChunkOverlap)
    IN  [i \in 1..Len(chunks) |->
            [id |-> <<doc.filename, "_chunk_", i - 1>>,
             text |-> chunks[i],
             metadata |-> [filename |-> doc.filename, source |-> doc.source,
                           chunk_index |-> i - 1, total_chunks |-> Len(chunks)],
             space |-> EmbeddingSpace(model)]]

RECURSIVE AllEntries(_, _)
\* the batch add_documents hands to collection.add
AllEntries(documents, model) ==
    IF documents = <<>> THEN <<>>
    ELSE DocumentEntries(Head(documents), model) \o AllEntries(Tail(documents), model)

\* add_documents(documents): the collection after collection.add
add_documents(stored, documents, model) == stored \o AllEntries(documents, model)

RECURSIVE KeptStarts(_, _, _)
\* the starts of the windows chunk_text keeps
KeptStarts(words, starts, chunk_size) ==
    IF starts = <<>> THEN <<>>
    ELSE LET chunk == WordWindow(words, Head(starts), chunk_size)
             rest == KeptStarts(words, Tail(starts), chunk_size)
         IN  IF chunk # <<>> /\ JoinedLength(chunk) > MinChunkChars
             THEN <<Head(starts)>> \o rest ELSE rest

\* the word positions [from, to) of the chunks chunk_text returns
ChunkSpans(text, chunk_size, overlap) ==
    LET starts == KeptStarts(text, PyRange(Len(text), chunk_size - overlap), chunk_size)
    IN  [k \in 1..Len(starts) |->
            <<starts[k], Min(starts[k] + chunk_size, Len(text))>>]

\* PDFProcessor.chunk_text(text, chunk_size, overlap), when range() does not raise:
\* every window is a chunk
pdf_chunk_text(text, chunk_size, overlap) ==
    LET starts == PyRange(Len(text), chunk_size - overlap)
    IN  [k \in 1..Len(starts) |-> WordWindow(text, starts[k], chunk_size)]

\* the word positions [from, to) of the chunks PDFProcessor.chunk_text returns
PdfChunkSpans(text, chunk_size, overlap) ==
    LET starts == PyRange(Len(text), chunk_size - overlap)
    IN  [k \in 1..Len(starts) |->
            <<starts[k], Min(starts[k] + chunk_size, Len(text))>>]

NoChunkCall ==
    [op |-> "none", text |-> <<>>, chunk_size |-> 0, overlap |-> 0,
     outcome |-> "none", chunks |-> <<>>, spans |-> <<>>, ids |-> <<>>]

\* a mutant of QuerySpace: the query is always sent as raw text
QuerySpaceText(model) == "default"

\* search: the query is encoded with the session's model, or sent as text
QuerySpace(model) == EmbeddingSpace(model)

\* search(query, n_results): the formatted results; the index ranks its entries
\* in the order they were stored
search(stored, n_results) ==
    [i \in 1..Min(n_results, Len(stored)) |->
        [content |-> stored[i].text,
         metadata |-> stored[i].metadata,
         distance |-> i - 1]]

(***************************************************************************)
(* AadhaarChatAgent                                                        *)
(***************************************************************************)
AgentCall(op, trace, yielded) ==
    [op |-> op, trace |-> trace, yielded |-> yielded, query_space |-> "n/a",
     search_failed |-> FALSE, completion_failed |-> FALSE]

\* a mutant of NeedsIngestion: the documents are ingested at every start
NeedsIngestionAlways(stored) == TRUE

\* self.vector_db.collection.count() == 0
NeedsIngestion(stored) == Len(stored) = 0

\* add_documents returns when neither encode nor collection.add raises; the
\* index rejects an empty batch, which is what documents without a chunk of more
\* than 50 characters make
AddSucceeds(add_ok, batch) == add_ok /\ batch # <<>>

\* a mutant of InitializedWithoutDocuments: the return is missing and the flag is set
InitializedWithoutDocumentsSet == TRUE

\* if not documents: return, which leaves is_initialized False
InitializedWithoutDocuments == FALSE

\* if self.is_initialized: return
AlreadyInitialized(flag) == flag

\* initialize(): the collaborators it calls, the collection and the flag it leaves,
\* and whether add_documents raised
initialize(add_ok) ==
    IF AlreadyInitialized(is_initialized)
    THEN [trace |-> <<>>, collection |-> collection, is_initialized |-> TRUE,
          raised |-> FALSE]
    ELSE IF NeedsIngestion(collection)
    THEN LET documents == process_all_pdfs(pdf_directory)
         IN  IF documents = <<>>
             THEN [trace |-> <<"count", "process_all_pdfs">>,
                   collection |-> collection,
                   is_initialized |-> InitializedWithoutDocuments,
                   raised |-> FALSE]
             ELSE IF AddSucceeds(add_ok, AllEntries(documents, embedding_model))
             THEN [trace |-> <<"count", "process_all_pdfs", "add_documents">>,
                   collection |-> add_documents(collection, documents, embedding_model),
                   is_initialized |-> TRUE, raised |-> FALSE]
             ELSE [trace |-> <<"count", "process_all_pdfs", "add_documents">>,
                   collection |-> collection, is_initialized |-> FALSE,
                   raised |-> TRUE]
    ELSE [trace |-> <<"count">>, collection |-> collection, is_initialized |-> TRUE,
          raised |-> FALSE]

\* a mutant of AskSearchFailure: ask_question turns a failed search into a message
AskSearchFailureMessage == "error_message"

\* ask_question has no handler around search: the exception reaches the caller
AskSearchFailure == "exception"

\* search followed by generate_response, as chat_loop and ask_question call them, on
\* the index as initialize left it; on_failure is what the caller makes of an
\* exception of search
SearchAndAnswer(op, trace, stored, search_ok, completion_ok, summary_ok, on_failure) ==
    IF search_ok
    THEN /\ generate_response(<<"Q", nextq>>, search(stored, NResults),
                              completion_ok, summary_ok)
         /\ nextq' = IF completion_ok THEN nextq + 1 ELSE nextq
         /\ agent_call' = [op |-> op,
                           trace |-> trace \o <<"search", "generate_response">>,
                           yielded |-> IF completion_ok THEN "answer" ELSE "error_message",
                           query_space |-> QuerySpace(embedding_model),
                           search_failed |-> FALSE,
                           completion_failed |-> ~completion_ok]
    ELSE /\ UNCHANGED <<conversation_history, conversation_summary, last_call, nextq>>
         /\ agent_call' = [op |-> op,
                           trace |-> trace \o <<"search">>,
                           yielded |-> on_failure,
                           query_space |-> QuerySpace(embedding_model),
                           search_failed |-> TRUE,
                           completion_failed |-> FALSE]

\* AadhaarChatAgent(): a new process opens the persisted index; VectorDatabase
\* loads the first candidate that loads and OpenAIChat starts with an empty memory
Construct(loadable) ==
    /\ embedding_model' = LoadedModel(loadable)
    /\ load_attempts' = LoadAttempts(loadable)
    /\ is_initialized' = FALSE
    /\ in_chat_loop' = FALSE
    /\ conversation_history' = <<>>
    /\ conversation_summary' = <<>>
    /\ last_call' = NoCall
    /\ reset_mark' = nextq
    /\ agent_call' = AgentCall("construct", <<>>, "none")
    /\ UNCHANGED <<collection, pdf_directory, nextq>>

\* the process ends and the agent is started again on the same index
Restart ==
    /\ UNCHANGED chunk_call
    /\ session < MaxSessions
    /\ session' = session + 1
    /\ \E loadable \in SUBSET {bge_models[i] : i \in 1..Len(bge_models)} :
           Construct(loadable)

\* initialize() called by the program
Initialize ==
    /\ UNCHANGED chunk_call
    /\ ~in_chat_loop
    /\ \E add_ok \in BOOLEAN :
           LET init == initialize(add_ok)
           IN  /\ collection' = init.collection
               /\ is_initialized' = init.is_initialized
               /\ agent_call' = AgentCall("initialize", init.trace,
                                          IF init.raised THEN "exception" ELSE "returned")
    /\ UNCHANGED <<chat_vars, embedding_model, load_attempts, pdf_directory, session,
                   in_chat_loop>>

\* ask_question(question)
AskQuestion ==
    /\ UNCHANGED chunk_call
    /\ ~in_chat_loop
    /\ nextq <= MaxAgentQueries
    /\ \E add_ok \in BOOLEAN, search_ok \in BOOLEAN, completion_ok \in BOOLEAN,
          summary_ok \in BOOLEAN :
           LET init == initialize(add_ok)
           IN  /\ collection' = init.collection
               /\ is_initialized' = init.is_initialized
               /\ IF init.raised \/ ~init.is_initialized
                  THEN /\ agent_call' = AgentCall("ask_question", init.trace,
                               IF init.raised THEN "exception" ELSE "init_failed")
                       /\ UNCHANGED chat_vars
                  ELSE /\ SearchAndAnswer("ask_question", init.trace, init.collection,
                                          search_ok, completion_ok, summary_ok,
                                          AskSearchFailure)
                       /\ UNCHANGED reset_mark
    /\ UNCHANGED <<embedding_model, load_attempts, pdf_directory, session, in_chat_loop>>

\* chat_loop() up to its while loop
ChatLoop ==
    /\ UNCHANGED chunk_call
    /\ ~in_chat_loop
    /\ \E add_ok \in BOOLEAN :
           LET init == initialize(add_ok)
           IN  /\ collection' = init.collection
               /\ is_initialized' = init.is_initialized
               /\ in_chat_loop' = (~init.raised /\ init.is_initialized)
               /\ agent_call' = AgentCall("chat_loop", init.trace,
                      IF init.raised THEN "exception"
                      ELSE IF init.is_initialized THEN "none" ELSE "returned")
    /\ UNCHANGED <<chat_vars, embedding_model, load_attempts, pdf_directory, session>>

\* one pass of the while loop on 'quit', 'exit', 'bye' or a keyboard interrupt
ChatQuit ==
    /\ UNCHANGED chunk_call
    /\ in_chat_loop
    /\ in_chat_loop' = FALSE
    /\ agent_call' = AgentCall("chat_input", <<"quit">>, "returned")
    /\ UNCHANGED <<chat_vars, embedding_model, load_attempts, collection,
                   is_initialized, pdf_directory, session>>

\* one pass of the while loop on 'clear'
ChatClear ==
    /\ UNCHANGED chunk_call
    /\ in_chat_loop
    /\ clear_history
    /\ agent_call' = AgentCall("chat_input", <<"clear_history">>, "none")
    /\ UNCHANGED <<nextq, embedding_model, load_attempts, collection, is_initialized,
                   pdf_directory, session, in_chat_loop>>

\* one pass of the while loop on 'help' or on an empty line
ChatSkip ==
    /\ UNCHANGED chunk_call
    /\ in_chat_loop
    /\ agent_call' = AgentCall("chat_input", <<>>, "none")
    /\ UNCHANGED <<chat_vars, embedding_model, load_attempts, collection,
                   is_initialized, pdf_directory, session, in_chat_loop>>

\* one pass of the while loop on a question; except Exception prints the error
ChatQuery ==
    /\ UNCHANGED chunk_call
    /\ in_chat_loop
    /\ nextq <= MaxAgentQueries
    /\ \E search_ok \in BOOLEAN, completion_ok \in BOOLEAN, summary_ok \in BOOLEAN :
           SearchAndAnswer("chat_input", <<>>, collection, search_ok, completion_ok,
                           summary_ok, "error_message")
    /\ UNCHANGED <<reset_mark, embedding_model, load_attempts, collection,
                   is_initialized, pdf_directory, session, in_chat_loop>>

\* the corpus directories of the model: texts are sequences of word lengths
Text(n, wordlen) == [i \in 1..n |-> wordlen]

File(name, text, readable) == [name |-> name, text |-> text, readable |-> readable]

Directories ==
    { <<>>,
      <<File("scan.pdf", <<>>, TRUE)>>,
      <<File("note.pdf", Text(3, 4), TRUE)>>,
      <<File("a.pdf", Text(10, 6), TRUE)>>,
      <<File("a.pdf", Text(10, 6), TRUE), File("bad.pdf", Text(9, 6), FALSE),
        File("note.pdf", Text(3, 4), TRUE)>> }

\* the first start of the agent, on an index with no entries
AgentInit ==
    /\ nextq = 1
    /\ reset_mark = 1
    /\ conversation_history = <<>>
    /\ conversation_summary = <<>>
    /\ last_call = NoCall
    /\ collection = <<>>
    /\ pdf_directory \in Directories
    /\ session = 1
    /\ is_initialized = FALSE
    /\ in_chat_loop = FALSE
    /\ agent_call = AgentCall("construct", <<>>, "none")
    /\ chunk_call = NoChunkCall
    /\ \E loadable \in SUBSET {bge_models[i] : i \in 1..Len(bge_models)} :
           /\ embedding_model = LoadedModel(loadable)
           /\ load_attempts = LoadAttempts(loadable)

\* files are put into the corpus directory, taken out of it, or become unreadable,
\* between two calls on the agent; process_all_pdfs lists and reads the directory
\* again at every call
CorpusChanges ==
    /\ \E files \in Directories \ {pdf_directory} : pdf_directory' = files
    /\ UNCHANGED <<chat_vars, embedding_model, load_attempts, collection,
                   is_initialized, session, in_chat_loop, agent_call, chunk_call>>

AgentNext ==
    \/ CorpusChanges
    \/ Restart
    \/ Initialize
    \/ AskQuestion
    \/ ChatLoop
    \/ ChatQuit
    \/ ChatClear
    \/ ChatSkip
    \/ ChatQuery

AgentSpec == AgentInit /\ [][AgentNext]_vars

(***************************************************************************)
(* Inputs of the OpenAIChat object driven directly.                        *)
(***************************************************************************)
Result(content, filename) ==
    [content |-> content, metadata |-> [filename |-> filename], distance |-> 0]

ResultNoFilename(content) ==
    [content |-> content, metadata |-> [source |-> "x"], distance |-> 1]

ContextInputs ==
    { <<>>,
      <<Result(<<6, 6>>, "a.pdf")>>,
      <<Result(<<6, 6>>, "a.pdf"), ResultNoFilename(<<7>>)>> }

ChatInit ==
    /\ conversation_history = <<>>
    /\ conversation_summary = <<>>
    /\ last_call = NoCall
    /\ nextq = 1
    /\ reset_mark = 1

AgentIdle ==
    /\ embedding_model = "None"
    /\ load_attempts = <<>>
    /\ collection = <<>>
    /\ is_initialized = FALSE
    /\ pdf_directory = <<>>
    /\ session = 1
    /\ in_chat_loop = FALSE
    /\ agent_call = AgentCall("none", <<>>, "none")

Init == ChatInit /\ AgentIdle /\ chunk_call = NoChunkCall

\* generate_response called on the object with the user's next question; the user
\* asks a question again until it is answered
Answer ==
    /\ UNCHANGED chunk_call
    /\ nextq <= MaxQueries
    /\ \E docs \in ContextInputs, completion_ok \in BOOLEAN, summary_ok \in BOOLEAN :
          /\ generate_response(<<"Q", nextq>>, docs, completion_ok, summary_ok)
          /\ nextq' = IF completion_ok THEN nextq + 1 ELSE nextq
    /\ UNCHANGED reset_mark
    /\ UNCHANGED agent_vars

\* clear_history called on the object
Clear ==
    /\ UNCHANGED chunk_call
    /\ clear_history
    /\ UNCHANGED nextq
    /\ UNCHANGED agent_vars

Next == Answer \/ Clear

Spec == Init /\ [][Next]_vars

(***************************************************************************)
(* The chunkers and add_documents applied to bounded inputs.               *)
(***************************************************************************)
\* the texts given to the chunkers: up to MaxChunkWords words of 10 or 30 letters
ChunkTexts ==
    UNION {[1..n -> {10, 30}] : n \in 0..MaxChunkWords}

\* the word counts of the documents given to add_documents
IngestWordCounts == {650, 1500, 2000}

\* the file names of the documents given to add_documents
IngestFiles == {"doc.pdf", "b.pdf"}

\* the texts, sizes and overlaps the chunkers are given: short texts with small
\* sizes, and the documents of add_documents with the sizes add_documents uses
ChunkInputs ==
    {[NoChunkCall EXCEPT !.text = text, !.chunk_size = chunk_size, !.overlap = overlap] :
        text \in ChunkTexts, chunk_size \in 1..MaxChunkSize, overlap \in 0..MaxOverlap}
    \cup
    {[NoChunkCall EXCEPT !.text = Text(words, 5), !.chunk_size = ChunkSize,
                         !.overlap = ChunkOverlap] : words \in IngestWordCounts}

ChunkInit == ChatInit /\ AgentIdle /\ chunk_call \in ChunkInputs

\* VectorDatabase.chunk_text(text, chunk_size, overlap)
VectorChunkText ==
    /\ chunk_call' =
           IF chunk_text_raises(chunk_call.chunk_size, chunk_call.overlap)
           THEN [chunk_call EXCEPT !.op = "VectorDatabase.chunk_text",
                                   !.outcome = "raised", !.chunks = <<>>,
                                   !.spans = <<>>, !.ids = <<>>]
           ELSE [chunk_call EXCEPT
                    !.op = "VectorDatabase.chunk_text",
                    !.outcome = "returned",
                    !.chunks = chunk_text(chunk_call.text, chunk_call.chunk_size,
                                          chunk_call.overlap),
                    !.spans = ChunkSpans(chunk_call.text, chunk_call.chunk_size,
                                         chunk_call.overlap),
                    !.ids = <<>>]
    /\ UNCHANGED <<chat_vars, agent_vars>>

\* PDFProcessor.chunk_text(text, chunk_size, overlap)
PdfChunkText ==
    /\ chunk_call' =
           IF chunk_text_raises(chunk_call.chunk_size, chunk_call.overlap)
           THEN [chunk_call EXCEPT !.op = "PDFProcessor.chunk_text",
                                   !.outcome = "raised", !.chunks = <<>>,
                                   !.spans = <<>>, !.ids = <<>>]
           ELSE [chunk_call EXCEPT
                    !.op = "PDFProcessor.chunk_text",
                    !.outcome = "returned",
                    !.chunks = pdf_chunk_text(chunk_call.text, chunk_call.chunk_size,
                                              chunk_call.overlap),
                    !.spans = PdfChunkSpans(chunk_call.text, chunk_call.chunk_size,
                                            chunk_call.overlap),
                    !.ids = <<>>]
    /\ UNCHANGED <<chat_vars, agent_vars>>

\* add_documents([doc]) called on the index for a document of one of IngestFiles
\* that the index does not hold yet: chunk_text is called with its default sizes and
\* collection.add writes the batch, unless encode or collection.add raises
IngestOneDocument ==
    /\ chunk_call.chunk_size = ChunkSize
    /\ chunk_call.overlap = ChunkOverlap
    /\ \E filename \in IngestFiles, add_ok \in BOOLEAN :
        /\ \A i \in 1..Len(collection) : collection[i].metadata.filename # filename
        /\ LET doc == [filename |-> filename, content |-> chunk_call.text,
                       source |-> <<"Supporting Documents", filename>>]
               entries == AllEntries(<<doc>>, embedding_model)
               added == AddSucceeds(add_ok, entries)
           IN  /\ chunk_call' =
                       [chunk_call EXCEPT
                           !.op = "add_documents",
                           !.outcome = IF added THEN "returned" ELSE "raised",
                           !.chunks = <<>>,
                           !.spans = ChunkSpans(doc.content, ChunkSize, ChunkOverlap),
                           !.ids = [k \in 1..Len(entries) |-> entries[k].id]]
               /\ collection' = IF added
                                THEN add_documents(collection, <<doc>>, embedding_model)
                                ELSE collection
    /\ UNCHANGED <<chat_vars, embedding_model, load_attempts, is_initialized,
                   pdf_directory, session, in_chat_loop, agent_call>>

ChunkNext == VectorChunkText \/ PdfChunkText \/ IngestOneDocument

ChunkSpec == ChunkInit /\ [][ChunkNext]_vars

(***************************************************************************)
(* Properties of the conversation memory and of the answer composer.       *)
(***************************************************************************)
\* the turns of a request: what lies between the system messages and the final message
PriorTurns(messages) ==
    SelectSeq(SubSeq(messages, 1, Len(messages) - 1), LAMBDA m : m.role # "system")

\* the number of the question a turn belongs to
TurnNumber(turn) == turn.content[2]

\* the "role: content" lines a summary was made from
SummaryInputs(summary) ==
    UNION {{summary[k][2][i] : i \in DOMAIN summary[k][2]} : k \in DOMAIN summary}

\* C1: when a request is assembled from a history of N > W turns, its prior-context
\* turns are exactly the W most recent turns of the history, in their order.
C1_WindowIsMostRecent ==
    [][(last_call'.op = "generate_response" /\ Len(conversation_history) > WindowSize)
        => LET n == Len(conversation_history)
               prior == PriorTurns(last_call'.messages)
           IN  /\ Len(prior) = WindowSize
               /\ \A k \in 1..WindowSize :
                      prior[k] = conversation_history[n - WindowSize + k]]_vars

\* a request was answered from a history of more than W turns
C1_Witness ==
    /\ last_call.op = "generate_response"
    /\ last_call.returned[1] = "answer"
    /\ Len(conversation_history) > WindowSize + 2
    /\ Len(PriorTurns(last_call.messages)) = WindowSize

\* C2: every turn recorded since the last reset is among the turns window() returns
\* or was part of the input of the summarization whose output is the summary.
C2_NoTurnLost ==
    \A i \in 1..Len(conversation_history) :
        \/ i > Len(conversation_history) - WindowSize
        \/ <<conversation_history[i].role, conversation_history[i].content>>
               \in SummaryInputs(conversation_summary)

\* C3: a record that makes len(turns) a positive multiple of the period makes exactly
\* one summarization call, over the P most recent turns, and on success the summary
\* is that call's output alone; any other record makes no summarization call.
C3_SummaryEveryPeriod ==
    (last_call.op = "generate_response" /\ last_call.returned[1] = "answer")
    => LET n == Len(conversation_history)
           reqs == last_call.summary_requests
       IN  IF n % SummaryPeriod = 0
           THEN /\ Len(reqs) = 1
                /\ Len(reqs[1]) = 1
                /\ reqs[1][1].content[2] =
                      [i \in 1..SummaryPeriod |->
                          <<conversation_history[n - SummaryPeriod + i].role,
                            conversation_history[n - SummaryPeriod + i].content>>]
                /\ ~last_call.summary_failed
                      => /\ conversation_summary = <<<<"SUMMARY", reqs[1][1].content[2]>>>>
                         /\ \A i \in 1..(n - SummaryPeriod) :
                                <<conversation_history[i].role, conversation_history[i].content>>
                                    \notin SummaryInputs(conversation_summary)
           ELSE reqs = <<>>

\* the second trigger in a row has fired and its summarization succeeded
C3_Witness ==
    /\ last_call.op = "generate_response"
    /\ last_call.returned[1] = "answer"
    /\ Len(conversation_history) = 2 * SummaryPeriod
    /\ ~last_call.summary_failed
    /\ conversation_summary # <<>>

\* C4: when the summarization call fails, the summary keeps its value, the two turns
\* of the exchange are recorded and generate_response returns the assistant's answer.
C4_SummaryFailureIsSilent ==
    [][(last_call'.op = "generate_response" /\ last_call'.summary_failed)
        => /\ conversation_summary' = conversation_summary
           /\ Len(conversation_history') = Len(conversation_history) + 2
           /\ SubSeq(conversation_history', 1, Len(conversation_history))
                  = conversation_history
           /\ conversation_history'[Len(conversation_history) + 1]
                  = [role |-> "user", content |-> <<"Q", nextq>>]
           /\ conversation_history'[Len(conversation_history) + 2]
                  = [role |-> "assistant", content |-> <<"A", nextq>>]
           /\ last_call'.returned = <<"answer", <<"A", nextq>>>>]_vars

\* a summarization failed while a summary of earlier turns existed
C4_Witness ==
    /\ last_call.op = "generate_response"
    /\ last_call.summary_failed
    /\ conversation_summary # <<>>
    /\ last_call.returned[1] = "answer"

\* C5: when the completion call for the answer fails, generate_response returns an
\* error string and the memory is unchanged: no turn, no summary change, no
\* summarization call; turns are recorded only by a call that returned an answer.
C5_AnswerFailureLeavesMemory ==
    [][/\ (last_call'.op = "generate_response" /\ last_call'.returned[1] # "answer")
           => /\ last_call'.returned[1] = "error"
              /\ conversation_history' = conversation_history
              /\ conversation_summary' = conversation_summary
              /\ last_call'.summary_requests = <<>>
       /\ Len(conversation_history') > Len(conversation_history)
           => last_call'.returned[1] = "answer"]_vars

\* an answer failed on a memory that holds turns and a summary
C5_Witness ==
    /\ last_call.op = "generate_response"
    /\ last_call.returned[1] = "error"
    /\ Len(conversation_history) >= SummaryPeriod
    /\ conversation_summary # <<>>

\* C6: after clear_history the turns and the summary are empty; nothing recorded
\* before the reset is in the history, the summary or a later request; and the
\* summarization period counts from zero again.
C6_ResetForgetsEverything ==
    /\ last_call.op = "clear_history"
           => conversation_history = <<>> /\ conversation_summary = <<>>
    /\ \A i \in 1..Len(conversation_history) :
           TurnNumber(conversation_history[i]) >= reset_mark
    /\ \A line \in SummaryInputs(conversation_summary) : line[2][2] >= reset_mark
    /\ \A i \in 1..Len(last_call.messages) :
           LET m == last_call.messages[i]
           IN  /\ m.content[1] \in {"Q", "A"} => m.content[2] >= reset_mark
               /\ m.content[1] = "CONVERSATION SUMMARY"
                      => \A line \in SummaryInputs(m.content[2]) : line[2][2] >= reset_mark
    /\ Len(conversation_history) < SummaryPeriod => conversation_summary = <<>>
    /\ last_call.summary_requests # <<>>
           => /\ Len(conversation_history) % SummaryPeriod = 0
              /\ Len(conversation_history) >= SummaryPeriod

\* a history with a summary was reset and a whole period was recorded after it
C6_Witness ==
    /\ reset_mark > SummaryPeriod \div 2
    /\ last_call.op = "generate_response"
    /\ Len(conversation_history) = SummaryPeriod
    /\ last_call.summary_requests # <<>>

\* C7: the request is the system message, then the summary message if and only if
\* the summary is not empty, then the window's turns in order, then one final user
\* message with the retrieved context and the query.
C7_MessageOrder ==
    [][last_call'.op = "generate_response"
        => LET m == last_call'.messages
               w == Len(conversation_history) -
                        Min(Len(conversation_history), WindowSize)
               s == IF conversation_summary # <<>> THEN 1 ELSE 0
               turns == Len(conversation_history) - w
           IN  /\ Len(m) = 1 + s + turns + 1
               /\ m[1] = SystemMessage
               /\ s = 1 => m[2] = [role |-> "system",
                                    content |-> <<"CONVERSATION SUMMARY",
                                                  conversation_summary>>]
               /\ \A i \in 1..Len(m) :
                      /\ m[i].content[1] = "CONVERSATION SUMMARY" <=> (s = 1 /\ i = 2)
                      /\ m[i].content[1] = "SYSTEM" <=> i = 1
                      /\ m[i].content[1] = "RELEVANT DOCUMENT CONTEXT" <=> i = Len(m)
               /\ \A k \in 1..turns : m[1 + s + k] = conversation_history[w + k]
               /\ m[Len(m)].role = "user"
               /\ m[Len(m)].content[4] = <<"Q", nextq>>
               /\ \A j \in 1..Len(m[Len(m)].content[2]) :
                      /\ m[Len(m)].content[2][j][1] = "Source"
                      /\ m[Len(m)].content[2][j][2] = j]_vars

\* a request was assembled with a summary, a full window and two retrieved documents
C7_Witness ==
    /\ last_call.op = "generate_response"
    /\ Len(last_call.messages) = WindowSize + 3
    /\ last_call.messages[2].content[1] = "CONVERSATION SUMMARY"
    /\ Len(last_call.messages[WindowSize + 3].content[2]) = 2

(***************************************************************************)
(* Properties of the agent's sessions.                                     *)
(***************************************************************************)
\* C8: a query on which search or the completion fails yields an error message in
\* place of an answer, from chat_loop and from ask_question alike, and no exception
\* leaves the query surface.
C8_QuerySurfaceNeverCrashes ==
    (/\ agent_call.op \in {"ask_question", "chat_input"}
     /\ agent_call.search_failed \/ agent_call.completion_failed)
    => agent_call.yielded = "error_message"

\* C9: every query is embedded in the embedding space of the persisted entries,
\* whatever candidate the fallback chain selected at this start.
C9_QuerySpaceIsIndexSpace ==
    agent_call.query_space # "n/a"
    => \A i \in 1..Len(collection) : collection[i].space = agent_call.query_space

\* C10: the first initialize of a session on an index with no entries extracts the
\* documents and, when there are any, adds them; on an index with entries it
\* extracts nothing, adds nothing, leaves the index as it is and sets the flag.
\* (A step that leaves the directory as it is: a call, not a change of the corpus.)
C10_IngestOnlyWhenEmpty ==
    [][(agent_call'.op \in {"initialize", "ask_question", "chat_loop"} /\ ~is_initialized
            /\ pdf_directory' = pdf_directory)
        => LET trace == agent_call'.trace
               called(f) == \E k \in 1..Len(trace) : trace[k] = f
           IN  IF Len(collection) = 0
               THEN /\ called("process_all_pdfs")
                    /\ (\E k \in 1..Len(pdf_directory) :
                            pdf_directory[k].readable /\ pdf_directory[k].text # <<>>)
                           => called("add_documents")
               ELSE /\ ~called("process_all_pdfs")
                    /\ ~called("add_documents")
                    /\ collection' = collection
                    /\ is_initialized']_vars

\* a later session was opened on the ingested index and initialize skipped ingestion
C10_Witness ==
    /\ session > 1
    /\ agent_call.op = "initialize"
    /\ agent_call.trace = <<"count">>
    /\ Len(collection) > 0
    /\ is_initialized

\* the last call on the agent ran initialize
RanInitialize(call) == call.op \in {"initialize", "ask_question", "chat_loop"}

\* the last call on the agent called the collaborator f
Called(call, f) == \E k \in 1..Len(call.trace) : call.trace[k] = f

\* C11: initialize() called again leaves the index and the flag as the call before
\* it left them, whatever that call did: any number of calls is the same as one.
C11_InitializeIdempotent ==
    [][(agent_call.op = "initialize" /\ agent_call'.op = "initialize")
        => /\ collection' = collection
           /\ is_initialized' = is_initialized]_vars

\* the corpus directory yields no document: no file is readable with a word in it
NoDocuments ==
    \A k \in 1..Len(pdf_directory) :
        ~pdf_directory[k].readable \/ pdf_directory[k].text = <<>>

C13_NonPositiveStepFails ==
    (/\ chunk_call.op \in {"VectorDatabase.chunk_text", "PDFProcessor.chunk_text"}
     /\ chunk_call.overlap >= chunk_call.chunk_size)
    => chunk_call.outcome = "raised"

\* C14: for 0 <= O < S the chunks VectorDatabase.chunk_text returns cover every word
\* position of the text, and every chunk but the last returned has exactly S words.
C14_ChunksCoverText ==
    (/\ chunk_call.op = "VectorDatabase.chunk_text"
     /\ chunk_call.overlap < chunk_call.chunk_size)
    => /\ chunk_call.outcome = "returned"
       /\ \A p \in 0..(Len(chunk_call.text) - 1) :
              \E k \in 1..Len(chunk_call.spans) :
                  chunk_call.spans[k][1] <= p /\ p < chunk_call.spans[k][2]
       /\ \A k \in 1..(Len(chunk_call.spans) - 1) :
              /\ Len(chunk_call.chunks[k]) = chunk_call.chunk_size
              /\ chunk_call.spans[k][2] - chunk_call.spans[k][1] = chunk_call.chunk_size

\* C15: ingesting one document of W words stores ceil((W - O) / (S - O)) chunks in
\* the index, with the ids filename_chunk_0 .. filename_chunk_(n-1).
C15_IngestedChunkCount ==
    (chunk_call.op = "add_documents" /\ chunk_call.outcome = "returned")
    => LET step == chunk_call.chunk_size - chunk_call.overlap
           claimed == (Len(chunk_call.text) - chunk_call.overlap + step - 1) \div step
           n == Len(chunk_call.ids)
           held == Len(collection)
       IN  /\ n = claimed
           /\ held >= n
           /\ \A k \in 1..n :
                  /\ collection[held - n + k].id = chunk_call.ids[k]
                  /\ chunk_call.ids[k] =
                         <<collection[held].metadata.filename, "_chunk_", k - 1>>

\* C16: __init__ tries the candidates in their fixed order, stops at the first that
\* loads and keeps it; when all fail the agent is built with no model, and then
\* add_documents stores its entries without vectors and search sends the query as
\* text, so that the entries and the query are in the index's default space.
C16_FallbackChain ==
    LET tried == Len(load_attempts)
    IN  /\ tried \in 1..Len(bge_models)
        /\ \A k \in 1..tried : load_attempts[k][1] = bge_models[k]
        /\ \A k \in 1..(tried - 1) : ~load_attempts[k][2]
        /\ IF load_attempts[tried][2]
           THEN embedding_model = load_attempts[tried][1]
           ELSE tried = Len(bge_models) /\ embedding_model = "None"
        /\ (embedding_model = "None" /\ Called(agent_call, "search"))
               => agent_call.query_space = "default"
        /\ (embedding_model = "None" /\ Called(agent_call, "add_documents")
                /\ is_initialized)
               => /\ collection # <<>>
                  /\ \A i \in 1..Len(collection) : collection[i].space = "default"

\* every candidate failed, and in that session the documents were ingested and a
\* question was answered
C16_Witness ==
    /\ embedding_model = "None"
    /\ Len(load_attempts) = Len(bge_models)
    /\ agent_call.op = "ask_question"
    /\ Called(agent_call, "add_documents")
    /\ agent_call.yielded = "answer"
    /\ ~agent_call.search_failed
    /\ collection # <<>>

\* C17: the history sent with a completion request is the last 20 exchanges, the
\* 40 most recent messages of the history the request was assembled from, or all of
\* it when it has fewer.
C17_HistoryIsTwentyExchanges ==
    (last_call.op = "generate_response" /\ last_call.returned[1] = "answer")
    => LET n == Len(conversation_history) - 2
           prior == PriorTurns(last_call.messages)
           sent == Min(n, DocumentedWindow)
       IN  /\ Len(prior) = sent
           /\ \A k \in 1..sent : prior[k] = conversation_history[n - sent + k]

\* C18: the history always has even length with roles alternating user, assistant
\* from a user turn; a step leaves its length, adds 2 to it on an answered question
\* or makes it 0 on a reset, so that it is twice the number of questions answered
\* since the last reset and steps over no multiple of the period; the answer that
\* makes it a positive multiple of the period, every 10th since the last reset,
\* sends a summarization request.
C18_TurnsAlternateAndTrigger ==
    [][LET old == Len(conversation_history)
           new == Len(conversation_history')
       IN  /\ new % 2 = 0
           /\ \A k \in 1..new :
                  conversation_history'[k].role =
                      IF k % 2 = 1 THEN "user" ELSE "assistant"
           /\ \/ new = old
              \/ new = old + 2 /\ last_call'.returned[1] = "answer"
              \/ new = 0 /\ last_call'.op = "clear_history"
           /\ new = 2 * (nextq' - reset_mark')
           /\ \A n \in (old + 1)..(new - 1) : n % SummaryPeriod # 0
           /\ (new > old /\ (nextq' - reset_mark') % (SummaryPeriod \div 2) = 0)
                  => /\ new % SummaryPeriod = 0
                     /\ Len(last_call'.summary_requests) = 1]_vars

\* the 20th question in a row was answered and its record sent a summarization request
C18_Witness ==
    /\ last_call.op = "generate_response"
    /\ last_call.returned[1] = "answer"
    /\ nextq - reset_mark = SummaryPeriod
    /\ Len(conversation_history) = 2 * SummaryPeriod
    /\ Len(last_call.summary_requests) = 1
    /\ conversation_history[2 * SummaryPeriod - 1].role = "user"
    /\ conversation_history[2 * SummaryPeriod].role = "assistant"

====
